---- MODULE Spec2Model ----
(***************************************************************************)
(* The remote job lifecycle tracker of the discovery page (OsukaPage):     *)
(* handleRun submits a job with osukaApi.run, a useEffect keyed by         *)
(* [runId, t.common.error] polls osukaApi.status every 2000 ms, and the    *)
(* responses are applied to the React state of the component.              *)
(*                                                                         *)
(* One state of the model is one point between two tasks of the browser's  *)
(* event loop.  A handler runs to its next await in one step; an HTTP call *)
(* is a message in flight until it resolves or rejects; a state update     *)
(* made by a handler is visible at once, while the effect that depends on  *)
(* it (its cleanup and its next run) is flushed by React in a later step.  *)
(***************************************************************************)
EXTENDS Integers, Sequences, FiniteSets, TLC

\* ---------------------------------------------------------------- bounds
MaxRuns == 2        \* osukaApi.run calls the user makes
MaxLangChanges == 1 \* changes of the interface language
MaxPolls == 2       \* osukaApi.status calls one session issues
MaxSubmits == 1     \* osukaApi.run calls in the specification with fairness

\* ------------------------------------------------------------- constants
Null == 0           \* runId === null; run ids are 1, 2, ...
NoResult == 0       \* status.result === undefined; the result of run r is r
Undefined == "undefined"

ServerLogs == <<"queued", "done">>
Locales == {"Error", "Fehler"}      \* the values t.common.error can take
BackendMessage == "no products found"
TransportMessage == "Network Error"

Categories == {<<>>, <<" ">>, <<"a">>, <<" ", "a">>}    \* what the category field can hold

VARIABLES
    mounted,        \* the component is mounted
    loading,        \* useState(false)
    runState,       \* useState<RunState>({})  [response, error]
    localLogs,      \* useState<string[]>([])
    runId,          \* useState<string|null>(null)
    runStatus,      \* useState<OsukaRunStatusResponse|null>(null)
    tError,         \* t.common.error of the current language
    effectDeps,     \* the [runId, t.common.error] of the last run of the effect
    sessions,       \* one record per run of the effect that passed `if (!runId) return`:
                    \* its runId, cancelled and interval, the number of status calls it
                    \* has issued and the number of the call whose response it applied last
    inflight,       \* osukaApi.status calls awaiting their response
    runPending,     \* osukaApi.run call awaiting its response
    runCalls,       \* number of osukaApi.run calls made
    langChanges,    \* number of language changes made
    rejected,       \* the osukaApi.run calls that were rejected
    terminal,       \* the terminal outcomes poll has recorded: [rid, how]
    last            \* the step that led to this state

vars == <<mounted, loading, runState, localLogs, runId, runStatus, tError,
          effectDeps, sessions, inflight, runPending, runCalls, langChanges, rejected,
          terminal, last>>

form == <<loading, runState, localLogs, runId, runStatus>>

\* ------------------------------------------------------------------ types
EmptyRunState == [response |-> NoResult, error |-> Undefined]

NullStatus == [run_id |-> Null, status |-> "null", logs |-> <<>>,
               result |-> NoResult, error |-> Undefined]

LogPrefixes == {SubSeq(ServerLogs, 1, k) : k \in 0..Len(ServerLogs)}

\* The bodies GET /discovery/run/{run_id} can answer for run r.
StatusResponses(r) ==
    {[run_id |-> r, status |-> "running", logs |-> l, result |-> NoResult,
      error |-> Undefined] : l \in LogPrefixes}
    \cup {[run_id |-> r, status |-> s, logs |-> ServerLogs, result |-> NoResult,
           error |-> Undefined] : s \in {"queued", "completed"}}
    \cup {[run_id |-> r, status |-> "completed", logs |-> ServerLogs,
           result |-> r, error |-> Undefined]}
    \cup {[run_id |-> r, status |-> "failed", logs |-> ServerLogs, result |-> NoResult,
           error |-> e] : e \in {Undefined, "", BackendMessage}}

\* What a rejected call throws: an Error with a message, or something else.
Rejections == {[isError |-> TRUE, message |-> TransportMessage],
               [isError |-> FALSE, message |-> Undefined]}

\* The record of a step: the operation, the run it concerns, whether it changed the
\* page, and for a click that reached handleRun the content of the category field.
ClickStep(op, rid, applied, category) ==
    [op |-> op, rid |-> rid, applied |-> applied, category |-> category]

Step(op, rid, applied) == ClickStep(op, rid, applied, <<>>)

\* ---------------------------------------------------------------- helpers
\* !category  in place of  !category.trim()
TrimNothing(s) == s

RECURSIVE TrimStart(_)
TrimStart(s) == IF s # <<>> /\ Head(s) = " " THEN TrimStart(Tail(s)) ELSE s

RECURSIVE TrimEnd(_)
TrimEnd(s) ==
    IF s # <<>> /\ s[Len(s)] = " " THEN TrimEnd(SubSeq(s, 1, Len(s) - 1)) ELSE s

Trim(s) == TrimEnd(TrimStart(s))

\* const message = err.message, whatever was thrown
ErrorMessageUnchecked(err) == err.message

\* err instanceof Error ? err.message : t.common.error
ErrorMessage(err) == IF err.isError THEN err.message ELSE tError

\* status.error ?? t.common.error
FailedMessageNullish(status) == IF status.error # Undefined THEN status.error ELSE tError

\* status.error || t.common.error
FailedMessage(status) ==
    IF status.error # Undefined /\ status.error # "" THEN status.error ELSE tError

Truthy(result) == result # NoResult

\* ------------------------------------------------------------------- Init
Init ==
    /\ mounted = TRUE
    /\ loading = FALSE
    /\ runState = EmptyRunState
    /\ localLogs = <<>>
    /\ runId = Null
    /\ runStatus = NullStatus
    /\ tError = "Error"
    /\ effectDeps = <<Null, tError>>
    /\ sessions = <<>>
    /\ inflight = {}
    /\ runPending = {}
    /\ runCalls = 0
    /\ langChanges = 0
    /\ rejected = {}
    /\ terminal = {}
    /\ last = Step("init", Null, FALSE)

\* ------------------------------------------------------- the polling effect
\* let cancelled = false; const interval = setInterval(poll, 2000); poll()
NewSession(rid) ==
    [runId |-> rid, cancelled |-> FALSE, interval |-> TRUE, issued |-> 1, applied |-> 0]

\* an effect that returns no cleanup
CleanupMissing(ss) == ss

\* return () => { cancelled = true; clearInterval(interval) }
\* The cleanup of the latest run of the effect that started a session.  A session
\* whose timer is cleared issues and applies nothing more: its counters are dropped.
Cleanup(ss) ==
    IF ss = <<>> THEN ss
    ELSE [ss EXCEPT ![Len(ss)] = [@ EXCEPT !.cancelled = TRUE, !.interval = FALSE,
                                           !.issued = 0, !.applied = 0]]

\* poll without the check of the cancelled flag
DiscardNever(sid) == FALSE

\* if (cancelled) return      (and  if (!cancelled)  in the catch)
Discard(sid) == sessions[sid].cancelled

\* a poll that takes every status other than running and completed for a failure
OutcomeStrict(status) ==
    IF status.status = "completed" /\ Truthy(status.result) THEN "completed"
    ELSE IF status.status \in {"running", "completed"} THEN "pending"
    ELSE "failed"

\* a poll that does not look for the result of a completed run
OutcomeUnchecked(status) ==
    IF status.status = "completed" THEN "completed"
    ELSE IF status.status = "failed" THEN "failed"
    ELSE "pending"

\* What poll makes of a response: the two `if`s after setRunStatus(status).
Outcome(status) ==
    IF status.status = "completed" /\ Truthy(status.result) THEN "completed"
    ELSE IF status.status = "failed" THEN "failed"
    ELSE "pending"

\* an effect that only arms the interval
FirstPollMissing(sid, rid) == {}

\* poll()  right after setInterval: the first status call of a session
FirstPoll(sid, rid) == {[sid |-> sid, seq |-> 1, rid |-> rid]}

\* osukaApi.status(runId): the runId the closure of this session captured
PollRunId(sid) == sessions[sid].runId

\* React flushes the effect after a render in which runId or t.common.error
\* changed: the previous cleanup, then the effect body.
FlushEffect ==
    /\ mounted
    /\ effectDeps # <<runId, tError>>
    /\ effectDeps' = <<runId, tError>>
    /\ IF runId = Null
       THEN /\ sessions' = Cleanup(sessions)
            /\ UNCHANGED inflight
            /\ last' = Step("effect", Null, FALSE)
       ELSE LET sid == Len(sessions) + 1
                ss == Append(Cleanup(sessions), NewSession(runId))
            IN /\ sessions' = ss
               /\ inflight' = inflight \cup FirstPoll(sid, ss[sid].runId)
               /\ last' = Step("effect", runId, FALSE)
    /\ UNCHANGED <<mounted, form, tError, runPending, runCalls, langChanges, rejected, terminal>>

\* The interval timer fires: poll() issues the next osukaApi.status call.
Tick(sid) ==
    /\ sessions[sid].interval
    /\ sessions[sid].issued < MaxPolls
    /\ LET seq == sessions[sid].issued + 1
       IN /\ sessions' = [sessions EXCEPT ![sid].issued = seq]
          /\ inflight' = inflight \cup {[sid |-> sid, seq |-> seq, rid |-> PollRunId(sid)]}
          /\ last' = Step("tick", PollRunId(sid), FALSE)
    /\ UNCHANGED <<mounted, form, tError, effectDeps, runPending, runCalls, langChanges,
                   rejected, terminal>>

\* await osukaApi.status(runId) resolves with `status`.
StatusResolve(q, status) ==
    /\ q \in inflight
    /\ inflight' = inflight \ {q}
    /\ IF Discard(q.sid)
       THEN /\ UNCHANGED <<runStatus, runState, runId, terminal, sessions>>
            /\ last' = Step("statusResolve", q.rid, FALSE)
       ELSE /\ runStatus' = status
            /\ sessions' = [sessions EXCEPT ![q.sid].applied = q.seq]
            /\ last' = Step("statusResolve", q.rid, TRUE)
            /\ IF Outcome(status) = "completed"
               THEN /\ runState' = [response |-> status.result, error |-> Undefined]
                    /\ runId' = Null
                    /\ terminal' = terminal \cup {[rid |-> q.rid, how |-> "completed"]}
               ELSE IF Outcome(status) = "failed"
               THEN /\ runState' = [response |-> NoResult, error |-> FailedMessage(status)]
                    /\ runId' = Null
                    /\ terminal' = terminal \cup {[rid |-> q.rid, how |-> "failed"]}
               ELSE UNCHANGED <<runState, runId, terminal>>
    /\ UNCHANGED <<mounted, loading, localLogs, tError, effectDeps, runPending,
                   runCalls, langChanges, rejected>>

\* await osukaApi.status(runId) rejects with `err`.
StatusReject(q, err) ==
    /\ q \in inflight
    /\ inflight' = inflight \ {q}
    /\ IF Discard(q.sid)
       THEN /\ UNCHANGED <<runState, runId, terminal>>
            /\ last' = Step("statusReject", q.rid, FALSE)
       ELSE /\ runState' = [response |-> NoResult, error |-> ErrorMessage(err)]
            /\ runId' = Null
            /\ terminal' = terminal \cup {[rid |-> q.rid, how |-> "transport"]}
            /\ last' = Step("statusReject", q.rid, TRUE)
    /\ UNCHANGED <<mounted, loading, localLogs, runStatus, tError, effectDeps,
                   sessions, runPending, runCalls, langChanges, rejected>>

\* ------------------------------------------------------------------ render
\* localLogs.map((line, idx) => <div key={`local-${idx}`}>{line}</div>)
RenderLocal(logs) ==
    [i \in 1..Len(logs) |-> [key |-> <<"local", i - 1>>, line |-> logs[i]]]

\* runStatus?.logs?.map((line, idx) => <div key={`remote-${idx}`}>{line}</div>)
RenderRemote(status) ==
    IF status = NullStatus THEN <<>>
    ELSE [i \in 1..Len(status.logs) |-> [key |-> <<"remote", i - 1>>, line |-> status.logs[i]]]

\* a log card that shows the remote entries first
RenderRemoteFirst(local, status) == RenderRemote(status) \o RenderLocal(local)

\* The children of the log card, in document order.
RenderLogs(local, status) == RenderLocal(local) \o RenderRemote(status)

\* ------------------------------------------------------------------ submit
\* a button that is never disabled
ButtonEnabled == FALSE

\* <Button onClick={handleRun} disabled={loading}>
ButtonDisabled == loading

\* handleRun up to `await osukaApi.run(...)`, with `category` in the category field
handleRun(category) ==
    IF Trim(category) = <<>>
    THEN /\ last' = ClickStep("handleRunInvalid", Null, FALSE, category)
         /\ UNCHANGED <<form, runPending, runCalls>>
    ELSE /\ loading' = TRUE
         /\ runState' = EmptyRunState
         /\ localLogs' = <<"logsStarting", "logsRequestSent">>
         /\ runStatus' = NullStatus
         /\ runCalls' = runCalls + 1
         /\ runPending' = runPending \cup {runCalls + 1}
         /\ last' = ClickStep("handleRun", runCalls + 1, TRUE, category)
         /\ UNCHANGED runId

\* A click on the run button.
ClickRun(category) ==
    /\ mounted
    /\ runCalls < MaxRuns
    /\ IF ButtonDisabled
       THEN /\ last' = Step("clickDisabled", Null, FALSE)
            /\ UNCHANGED <<form, runPending, runCalls>>
       ELSE handleRun(category)
    /\ UNCHANGED <<mounted, tError, effectDeps, sessions, inflight, langChanges, rejected, terminal>>

\* await osukaApi.run(...) resolves: the backend started run c.
RunResolve(c) ==
    /\ c \in runPending
    /\ runPending' = runPending \ {c}
    /\ last' = Step("runResolve", c, mounted)
    /\ IF mounted
       THEN /\ runId' = c
            /\ localLogs' = Append(localLogs, "logsResponseReceived")
            /\ loading' = FALSE
       ELSE UNCHANGED <<runId, localLogs, loading>>
    /\ UNCHANGED <<mounted, runState, runStatus, tError, effectDeps, sessions,
                   inflight, runCalls, langChanges, rejected, terminal>>

\* await osukaApi.run(...) rejects with `err`.
RunReject(c, err) ==
    /\ c \in runPending
    /\ runPending' = runPending \ {c}
    /\ last' = Step("runReject", c, mounted)
    /\ rejected' = rejected \cup {c}
    /\ IF mounted
       THEN /\ runState' = [response |-> NoResult, error |-> ErrorMessage(err)]
            /\ loading' = FALSE
       ELSE UNCHANGED <<runState, loading>>
    /\ UNCHANGED <<mounted, localLogs, runId, runStatus, tError, effectDeps,
                   sessions, inflight, runCalls, langChanges, terminal>>

\* ------------------------------------------------------------- environment
\* The language changes, and t.common.error with it.
SetLanguage(l) ==
    /\ mounted
    /\ l # tError
    /\ langChanges < MaxLangChanges
    /\ tError' = l
    /\ langChanges' = langChanges + 1
    /\ last' = Step("setLanguage", Null, FALSE)
    /\ UNCHANGED <<mounted, form, effectDeps, sessions, inflight, runPending, runCalls,
                   rejected, terminal>>

\* a cleanup that marks the abandoned Run as failed
UnmountFailsRun ==
    /\ mounted
    /\ mounted' = FALSE
    /\ sessions' = Cleanup(sessions)
    /\ runState' = IF runId = Null THEN runState
                   ELSE [response |-> NoResult, error |-> tError]
    /\ last' = Step("unmount", Null, FALSE)
    /\ UNCHANGED <<loading, localLogs, runId, runStatus, tError, effectDeps, inflight,
                   runPending, runCalls, langChanges, rejected, terminal>>

\* The page is left: React runs the cleanup of the effect.
Unmount ==
    /\ mounted
    /\ mounted' = FALSE
    /\ sessions' = Cleanup(sessions)
    /\ last' = Step("unmount", Null, FALSE)
    /\ UNCHANGED <<form, tError, effectDeps, inflight, runPending, runCalls, langChanges,
                   rejected, terminal>>

Next ==
    \/ FlushEffect
    \/ \E sid \in 1..Len(sessions) : Tick(sid)
    \/ \E q \in inflight : \E status \in StatusResponses(q.rid) : StatusResolve(q, status)
    \/ \E q \in inflight : \E err \in Rejections : StatusReject(q, err)
    \/ \E category \in Categories : ClickRun(category)
    \/ \E c \in runPending : RunResolve(c)
    \/ \E c \in runPending : \E err \in Rejections : RunReject(c, err)
    \/ \E l \in Locales : SetLanguage(l)
    \/ Unmount

Spec == Init /\ [][Next]_vars

\* ------------------------------------------------- polling without an end
\* The request numbers of session sid that no pending request holds.
FreeSeqs(sid) == (1..MaxPolls) \ {q.seq : q \in {p \in inflight : p.sid = sid}}

\* a poll that gives up after MaxPolls attempts
PollLimited(sid) == sid \in 1..Len(sessions) /\ Tick(sid)

\* The interval timer fires, any number of times: setInterval has no attempt limit
\* and poll keeps no count.  At most MaxPolls requests of a session are pending at
\* a time; the number of an answered request is used again.
Poll(sid) ==
    /\ sid \in 1..Len(sessions)
    /\ sessions[sid].interval
    /\ FreeSeqs(sid) # {}
    /\ LET seq == CHOOSE k \in FreeSeqs(sid) : \A j \in FreeSeqs(sid) : k <= j
       IN inflight' = inflight \cup {[sid |-> sid, seq |-> seq, rid |-> PollRunId(sid)]}
    /\ last' = Step("tick", PollRunId(sid), FALSE)
    /\ UNCHANGED <<mounted, form, tError, effectDeps, sessions, runPending, runCalls,
                   langChanges, rejected, terminal>>

\* The timer of some session fires.
Timer == \E sid \in 1..Len(sessions) : Poll(sid)

\* Some pending osukaApi.status call is answered.
Deliver ==
    \E q \in inflight :
        \/ \E status \in StatusResponses(q.rid) : StatusResolve(q, status)
        \/ \E err \in Rejections : StatusReject(q, err)

\* A click on the run button, while the user still has a submission to make.
Submit == runCalls < MaxSubmits /\ \E category \in Categories : ClickRun(category)

\* The sessions MaxSubmits runs can have: one for each value of the effect's
\* dependencies with a run id.
MaxSessions == MaxSubmits * (MaxLangChanges + 1)

LiveNext ==
    \/ FlushEffect
    \/ Timer
    \/ Deliver
    \/ Submit
    \/ \E c \in runPending : RunResolve(c)
    \/ \E c \in runPending : \E err \in Rejections : RunReject(c, err)
    \/ \E l \in Locales : SetLanguage(l)
    \/ Unmount

\* The browser runs a due timer callback, the backend answers every request, and
\* React flushes a pending effect.  The user and the backend's answers are free.
LiveSpec ==
    /\ Init
    /\ [][LiveNext]_vars
    /\ WF_vars(FlushEffect)
    /\ WF_vars(Timer)
    /\ WF_vars(Deliver)

\* ===================================================================== claims

SessionIds == 1..Len(sessions)

InFlightOf(sid) == {q \in inflight : q.sid = sid}

\* The requests this step resolved or rejected, and the ones it issued.
Answered == inflight \ inflight'
Issued == inflight' \ inflight

Active(sid) == sessions[sid].interval /\ ~sessions[sid].cancelled

TerminalRuns(hows) == {t.rid : t \in {u \in terminal : u.how \in hows}}

IsTerminalStatus(status) ==
    \/ status.status = "completed" /\ Truthy(status.result)
    \/ status.status = "failed"

\* The status of the spec's Run, read off the page's state.
RunStatusOf(state, busy, rid) ==
    IF state.response # NoResult THEN "completed"
    ELSE IF state.error # Undefined THEN "failed"
    ELSE IF busy THEN "submitting"
    ELSE IF rid # Null THEN "polling"
    ELSE "idle"

Rank(s) ==
    CASE s = "idle" -> 0
      [] s = "submitting" -> 1
      [] s = "polling" -> 2
      [] OTHER -> 3

\* C1: within one polling session at most one status request is in flight at
\* any time.
C1_OneRequestInFlight == \A sid \in SessionIds : Cardinality(InFlightOf(sid)) <= 1

\* C2: a status request of a cancelled session that resolves or rejects changes
\* none of runStatus, runState, runId, and a cancelled session issues no further
\* status request.
C2_CancelledIsInert ==
    [][ /\ \A q \in Answered :
              sessions[q.sid].cancelled => UNCHANGED <<runStatus, runState, runId>>
        /\ \A q \in Issued :
              q.sid \in SessionIds => ~sessions[q.sid].cancelled ]_vars

\* A response arrived for a session that had been cancelled while it was pending.
C2_Witness ==
    /\ last.op \in {"statusResolve", "statusReject"}
    /\ ~last.applied
    /\ \E sid \in SessionIds : sessions[sid].cancelled /\ sessions[sid].runId = last.rid

\* C3: a submit while a run id is assigned (the Run is polling) issues no
\* osukaApi.run call.
C3_NoSubmitWhilePolling == [][runId # Null => runCalls' = runCalls]_vars

\* C4: a second click while the first submission's osukaApi.run call is
\* unresolved makes no second call: at most one osukaApi.run call is pending.
C4_OneSubmitCall == Cardinality(runPending) <= 1

\* The button was clicked while the one submission was still unresolved.
C4_Witness == last.op = "clickDisabled" /\ runPending = {runCalls} /\ runCalls = 1

\* C5: once a terminal outcome is recorded for a Run, no later status response
\* of that Run changes runState or runStatus.
C5_TerminalOnce ==
    [][\A q \in Answered :
          q.rid \in TerminalRuns({"completed", "failed", "transport"})
              => UNCHANGED <<runState, runStatus>>]_vars

\* C6: runState never holds both a result and an error, and holds neither
\* while a Run is submitting or polling.
C6_ResultOrErrorOnlyWhenTerminal ==
    /\ ~(runState.response # NoResult /\ runState.error # Undefined)
    /\ (loading \/ runId # Null) => runState = EmptyRunState

\* C7: applying a status response never lowers the Run's status in the order
\* idle < submitting < polling < {completed, failed}, and once runStatus shows a
\* terminal status of a Run no later response of that Run makes it show a
\* running one.
C7_Monotone ==
    [][\A q \in Answered :
          /\ Rank(RunStatusOf(runState', loading', runId'))
                >= Rank(RunStatusOf(runState, loading, runId))
          /\ (IsTerminalStatus(runStatus) /\ runStatus.run_id = q.rid)
                => IsTerminalStatus(runStatus')]_vars

\* C8: after a response with a terminal status has been applied for a run id,
\* no further osukaApi.status call is issued for that run id.
C8_NoCallAfterTerminal ==
    [][\A q \in Issued : q.rid \notin TerminalRuns({"completed", "failed"})]_vars

\* C9: at most one session is active; every session before the latest one is
\* cancelled with its timer cleared; a request carries the run id its session
\* was started with.
C9_OneSession ==
    /\ Cardinality({sid \in SessionIds : Active(sid)}) <= 1
    /\ \A sid \in SessionIds :
          sid < Len(sessions) => sessions[sid].cancelled /\ ~sessions[sid].interval
    /\ \A q \in inflight : q.rid = sessions[q.sid].runId

\* A session for a second run id polls after the first run's session was cancelled
\* with a request pending.
C9_Witness ==
    /\ Len(sessions) >= 2
    /\ Active(Len(sessions))
    /\ sessions[1].runId # sessions[Len(sessions)].runId
    /\ InFlightOf(1) # {}
    /\ InFlightOf(Len(sessions)) # {}

\* C10: after a transport error of a status request has failed the Run, no
\* further osukaApi.status call is issued for that run id.
C10_NoRetryAfterTransportError ==
    [][\A q \in Issued : q.rid \notin TerminalRuns({"transport"})]_vars

\* The lines the log card shows, top to bottom.
DisplayLogs == [i \in 1..Len(RenderLogs(localLogs, runStatus)) |->
                    RenderLogs(localLogs, runStatus)[i].line]

IsPrefix(a, b) == Len(a) <= Len(b) /\ SubSeq(b, 1, Len(a)) = a

\* This step applied a status response (the response is runStatus').
AppliedStatus == Answered # {} /\ last'.op = "statusResolve" /\ last'.applied

\* C11: when osukaApi.run rejects, the page shows a failure with a message and
\* is no longer loading, the step assigns no runId, and no session or status
\* call ever exists for the rejected submission.
C11_SubmitFailure ==
    [][ /\ \A c \in rejected' \ rejected :
              mounted => /\ runState'.response = NoResult
                         /\ runState'.error \in {TransportMessage, tError}
                         /\ ~loading'
                         /\ runId' = runId
        /\ \A c \in rejected' :
              /\ runId' # c
              /\ \A sid \in 1..Len(sessions') : sessions'[sid].runId # c
              /\ \A q \in inflight' : q.rid # c ]_vars

\* The first submission was rejected: failed, and nothing polls.
C11_Witness ==
    /\ last.op = "runReject"
    /\ rejected = {1}
    /\ runState.error = TransportMessage
    /\ sessions = <<>>

\* C12: within one Run (no new submit in the step) the displayed log sequence
\* only grows: what was shown before is a prefix of what is shown after.
C12_LogsOnlyGrow == [][runCalls' = runCalls => IsPrefix(DisplayLogs, DisplayLogs')]_vars

\* C13: the log card shows exactly the local entries followed by the entries of
\* the latest applied status response, each entry once and in order.
C13_LocalThenRemote ==
    /\ DisplayLogs = localLogs \o runStatus.logs
    /\ Len(DisplayLogs) = Len(localLogs) + Len(runStatus.logs)

\* Two local entries followed by the two remote entries queued, done.
C13_Witness ==
    /\ Len(localLogs) = 2
    /\ runStatus.logs = <<"queued", "done">>
    /\ DisplayLogs = <<"logsStarting", "logsRequestSent", "queued", "done">>

\* The sessions this step cancelled.
Cancelled == {sid \in SessionIds : ~sessions[sid].cancelled /\ sessions'[sid].cancelled}

WhitespaceOnly(s) == \A i \in 1..Len(s) : s[i] = " "

\* C14: the step that cancels a polling session leaves runState, runStatus, runId
\* and localLogs as they were.
C14_CancelChangesNothing ==
    [][Cancelled # {} => UNCHANGED <<runState, runStatus, runId, localLogs>>]_vars

\* The page was left while run 1 was polling: the Run is abandoned, not failed.
C14_Witness ==
    /\ last.op = "unmount"
    /\ runId # Null
    /\ runState = EmptyRunState
    /\ sessions # <<>> /\ sessions[Len(sessions)].cancelled
    /\ sessions[Len(sessions)].runId = runId

\* C15: an applied response whose status is neither completed nor failed leaves
\* runState and runId unchanged, becomes runStatus, and leaves every session's
\* timer and cancelled flag as they were.
C15_OtherStatusIsPending ==
    [][(AppliedStatus /\ runStatus'.status \notin {"completed", "failed"})
          => /\ UNCHANGED <<runState, runId>>
             /\ \A sid \in SessionIds :
                   /\ sessions'[sid].interval = sessions[sid].interval
                   /\ sessions'[sid].cancelled = sessions[sid].cancelled]_vars

\* A response with an unrecognised status was applied and the run is still polled.
C15_Witness ==
    /\ last.op = "statusResolve" /\ last.applied
    /\ runStatus.status = "queued"
    /\ runId = runStatus.run_id
    /\ runState = EmptyRunState
    /\ \E sid \in SessionIds : Active(sid) /\ sessions[sid].runId = runId

\* C16: an applied response with status failed makes the Run failed with the
\* backend's message when that is non-empty, and with t.common.error otherwise.
C16_FailedMessage ==
    [][(AppliedStatus /\ runStatus'.status = "failed")
          => /\ runId' = Null
             /\ runState'.response = NoResult
             /\ runState'.error = IF runStatus'.error \in {Undefined, ""}
                                  THEN tError ELSE runStatus'.error]_vars

\* The first poll answered failed with 'no products found'.
C16_Witness ==
    /\ last.op = "statusResolve" /\ last.applied
    /\ runStatus.status = "failed"
    /\ runStatus.error = BackendMessage
    /\ runState = [response |-> NoResult, error |-> BackendMessage]
    /\ runId = Null
    /\ runCalls = 1

\* C17: a click with an empty or whitespace-only category calls osukaApi.run not
\* at all and leaves loading, runState, runStatus, localLogs and runId unchanged.
C17_EmptyCategoryRejected ==
    [][(last'.op \in {"handleRun", "handleRunInvalid"} /\ WhitespaceOnly(last'.category))
          => UNCHANGED <<loading, runState, runStatus, localLogs, runId, runPending,
                         runCalls>>]_vars

\* handleRun ran with a category of one blank.
C17_Witness == last.op = "handleRunInvalid" /\ last.category = <<" ">>

\* C18: the step that starts a session issues its first status request, for the
\* session's run id; every other status request is issued by an interval tick.
C18_ImmediateFirstPoll ==
    [][ /\ Len(sessions') > Len(sessions)
           => \E q \in Issued : /\ q.sid = Len(sessions')
                                /\ q.seq = 1
                                /\ q.rid = sessions'[Len(sessions')].runId
        /\ \A q \in Issued :
              q.sid \in SessionIds => last'.op = "tick" /\ q.seq > 1 ]_vars

\* A session has just started and its first request is already in flight.
C18_Witness ==
    /\ last.op = "effect" /\ last.rid # Null
    /\ sessions[Len(sessions)].issued = 1
    /\ \E q \in InFlightOf(Len(sessions)) : q.seq = 1 /\ q.rid = last.rid

\* C19: no response or transport error of a status request of an earlier Run
\* than the one submitted last sets runState, runStatus or runId.
C19_OnlyLatestRun ==
    [][\A q \in Answered :
          q.rid < runCalls => UNCHANGED <<runState, runStatus, runId>>]_vars

\* C20: an applied response with status completed and no result leaves runState,
\* runId and the timers unchanged; one with a result makes that result
\* runState.response and clears runId; no other status response sets a result.
C20_CompletedNeedsResult ==
    [][ /\ (AppliedStatus /\ runStatus'.status = "completed")
           => IF runStatus'.result = NoResult
              THEN /\ UNCHANGED <<runState, runId>>
                   /\ \A sid \in SessionIds :
                         sessions'[sid].interval = sessions[sid].interval
              ELSE /\ runState' = [response |-> runStatus'.result, error |-> Undefined]
                   /\ runId' = Null
        /\ (Answered # {} /\ runState' # runState /\ runState'.response # NoResult)
           => /\ AppliedStatus
              /\ runStatus'.status = "completed"
              /\ runStatus'.result = runState'.response ]_vars

\* completed without a result was applied and the run is still polled.
C20_Witness ==
    /\ last.op = "statusResolve" /\ last.applied
    /\ runStatus.status = "completed" /\ runStatus.result = NoResult
    /\ runId = runStatus.run_id
    /\ runState = EmptyRunState
    /\ \E sid \in SessionIds : Active(sid) /\ sessions[sid].runId = runId

\* While the page is mounted, loading is true exactly while an osukaApi.run call
\* is awaited.
LoadingIffSubmitting == mounted => (loading <=> runPending # {})

\* C22: the loading flag is true exactly while a submission's osukaApi.run call is
\* in flight, so it is false while a run id is polled and while runState holds a
\* result or an error.
C22_LoadingOnlyWhileSubmitting ==
    /\ LoadingIffSubmitting
    /\ (mounted /\ (runId # Null \/ runState # EmptyRunState)) => ~loading

\* Run r has a terminal outcome on record.
TerminalOf(r) == r \in TerminalRuns({"completed", "failed", "transport"})

\* No timer polls run r.
Stopped(r) == \A sid \in SessionIds : sessions[sid].runId = r => ~sessions[sid].interval

\* Session sid was cancelled, or a terminal status or a transport error was
\* applied for its run.
Ended(sid) ==
    /\ sid \in SessionIds
    /\ sessions[sid].cancelled \/ TerminalOf(sessions[sid].runId)

\* C21: with timers, responses and effects scheduled fairly, the step that applies
\* a terminal status or a transport error makes the Run terminal and clears runId,
\* and the polling of that run then stops; a session that is never cancelled and
\* never gets such an answer issues status requests for ever.
C21_PollsUntilTerminal ==
    /\ [][\A t \in terminal' \ terminal :
             /\ runState' # EmptyRunState
             /\ runId' = Null]_vars
    /\ \A r \in 1..MaxSubmits : TerminalOf(r) ~> Stopped(r)
    /\ \A sid \in 1..MaxSessions :
          \/ [](sid \notin SessionIds)
          \/ <>Ended(sid)
          \/ []<><<Poll(sid)>>_vars

\* Run 1 is terminal and its polling has stopped, with MaxPolls requests still
\* pending: the session issued more than MaxPolls requests.
C21_Witness ==
    /\ mounted
    /\ TerminalOf(1) /\ Stopped(1)
    /\ runId = Null /\ runState # EmptyRunState
    /\ \E sid \in SessionIds : Cardinality(InFlightOf(sid)) = MaxPolls

====
